---- MODULE Spec2Model ----
(***************************************************************************)
(* SecureQR backend: the /check-url handler (urlController.checkURL) with  *)
(* its collaborators: URLAnalyzer, UPIValidator, SafeBrowsingService and   *)
(* SmartAnalyzer.                                                          *)
(*                                                                         *)
(* Texts are TLA+ strings; TLC evaluates Len, SubSeq and \o on them, so    *)
(* the string predicates of the source are computed character by           *)
(* character.  Scores are exact rationals [n, d] (d > 0): IEEE-754         *)
(* rounding of the JavaScript numbers is not modelled.                     *)
(***************************************************************************)
EXTENDS Integers, Sequences, FiniteSets, TLC

VARIABLES
    trainedModel,   \* SmartAnalyzer.trainedModel (singleton field, set by the constructor)
    apiKey,         \* SafeBrowsingService.apiKey is configured
    requests,       \* one record per checkURL invocation, in arrival order
    features,       \* scorer harness: the feature vector under analysis
    analysis,       \* scorer harness: analyzeURL's result for `features`
    app             \* frontend: the state of the App component

vars == <<trainedModel, apiKey, requests, features, analysis, app>>

\* JavaScript null and undefined: tokens that no analysed text equals
Null == "<null>"
Undefined == "<undefined>"

(***************************************************************************)
(* String primitives (the methods of String.prototype the source uses)    *)
(***************************************************************************)
Ch(s, i) == SubSeq(s, i, i)

From(s, i) == SubSeq(s, i, Len(s))

StartsWith(s, p) == Len(p) <= Len(s) /\ SubSeq(s, 1, Len(p)) = p

EndsWith(s, p) == Len(p) <= Len(s) /\ SubSeq(s, Len(s) - Len(p) + 1, Len(s)) = p

MatchAt(s, p, i) == i >= 1 /\ i + Len(p) - 1 <= Len(s) /\ SubSeq(s, i, i + Len(p) - 1) = p

\* 1-based index of the first occurrence of p in s, 0 when there is none
IndexOf(s, p) ==
    LET hits == {i \in 1..Len(s) : MatchAt(s, p, i)}
    IN  IF hits = {} THEN 0 ELSE CHOOSE i \in hits : \A j \in hits : i <= j

LastIndexOf(s, p) ==
    LET hits == {i \in 1..Len(s) : MatchAt(s, p, i)}
    IN  IF hits = {} THEN 0 ELSE CHOOSE i \in hits : \A j \in hits : i >= j

Includes(s, p) == \E i \in 1..Len(s) : MatchAt(s, p, i)

UpperChars == "ABCDEFGHIJKLMNOPQRSTUVWXYZ"
LowerChars == "abcdefghijklmnopqrstuvwxyz"
DigitChars == "0123456789"

CharSet(s) == {Ch(s, i) : i \in 1..Len(s)}

Digit == CharSet(DigitChars)
Alpha == CharSet(UpperChars \o LowerChars)
AlphaNum == Alpha \cup Digit

LowerOf(c) == IF Includes(UpperChars, c) THEN Ch(LowerChars, IndexOf(UpperChars, c)) ELSE c

RECURSIVE ToLowerCase(_)
ToLowerCase(s) == IF s = "" THEN "" ELSE LowerOf(Ch(s, 1)) \o ToLowerCase(From(s, 2))

\* (s.match(/[set]/g) || []).length
CountIn(s, set) == Cardinality({i \in 1..Len(s) : Ch(s, i) \in set})

AllIn(s, set) == \A i \in 1..Len(s) : Ch(s, i) \in set

\* Number(s) for a string of decimal digits
RECURSIVE DigitsToNat(_)
DigitsToNat(s) ==
    IF s = "" THEN 0
    ELSE 10 * DigitsToNat(SubSeq(s, 1, Len(s) - 1)) + (IndexOf(DigitChars, Ch(s, Len(s))) - 1)

\* s.split(sep) for a one-character separator
RECURSIVE Split(_, _)
Split(s, sep) ==
    LET i == IndexOf(s, sep)
    IN  IF i = 0 THEN <<s>> ELSE <<SubSeq(s, 1, i - 1)>> \o Split(From(s, i + 1), sep)

\* String(n) for a natural number
RECURSIVE NatToString(_)
NatToString(n) ==
    IF n < 10 THEN Ch(DigitChars, n + 1)
    ELSE NatToString(n \div 10) \o Ch(DigitChars, (n % 10) + 1)

(***************************************************************************)
(* Rational arithmetic for scores, ratios and confidences                  *)
(***************************************************************************)
Q(n, d) == [n |-> n, d |-> d]

QLess(a, b) == a.n * b.d < b.n * a.d
QLeq(a, b) == a.n * b.d <= b.n * a.d
QAdd(a, b) == Q(a.n * b.d + b.n * a.d, a.d * b.d)
QMul(a, b) == Q(a.n * b.n, a.d * b.d)
QMin(a, b) == IF QLess(b, a) THEN b ELSE a
QMax(a, b) == IF QLess(a, b) THEN b ELSE a

RECURSIVE Gcd(_, _)
Gcd(a, b) == IF b = 0 THEN a ELSE Gcd(b, a % b)

Abs(x) == IF x < 0 THEN 0 - x ELSE x

\* canonical form, so that equal numbers are equal records
QNorm(a) ==
    LET g == Gcd(Abs(a.n), a.d)
    IN  IF a.n = 0 THEN Q(0, 1) ELSE Q(a.n \div g, a.d \div g)

Pct(k) == QNorm(Q(k, 100))   \* the decimal literal k/100

(***************************************************************************)
(* new URL(text): the WHATWG URL parser, as far as the analysed texts need *)
(* it.  Not modelled: percent-encoding, IPv6 and shorthand/hex IPv4 hosts, *)
(* dot-segment removal, IDNA, the file: scheme, tabs/newlines inside the   *)
(* input.  The result has the fields the source reads.                     *)
(***************************************************************************)
WhiteSpace == {" ", "\t", "\n", "\r", "\f"}

RECURSIVE TrimStart(_)
TrimStart(s) == IF s # "" /\ Ch(s, 1) \in WhiteSpace THEN TrimStart(From(s, 2)) ELSE s

RECURSIVE TrimEnd(_)
TrimEnd(s) ==
    IF s # "" /\ Ch(s, Len(s)) \in WhiteSpace THEN TrimEnd(SubSeq(s, 1, Len(s) - 1)) ELSE s

Trim(s) == TrimEnd(TrimStart(s))

SpecialSchemes == {"http", "https", "ftp", "ws", "wss"}

DefaultPort(scheme) ==
    CASE scheme = "http" -> "80"
      [] scheme = "https" -> "443"
      [] scheme = "ftp" -> "21"
      [] scheme = "ws" -> "80"
      [] scheme = "wss" -> "443"
      [] OTHER -> Null

ForbiddenHostChars == WhiteSpace \cup {"<", ">", "[", "]", "^", "|", "\\", "%", "@", ":", "#", "?", "/"}

RECURSIVE StripSlashes(_)
StripSlashes(s) ==
    IF s # "" /\ Ch(s, 1) \in {"/", "\\"} THEN StripSlashes(From(s, 2)) ELSE s

\* the part of s before position i; all of s when i = 0 (nothing found)
Before(s, i) == IF i = 0 THEN s ELSE SubSeq(s, 1, i - 1)

\* the part of s after position i; empty when i = 0
After(s, i) == IF i = 0 THEN "" ELSE From(s, i + 1)

Prefixed(p, s) == IF s = "" THEN "" ELSE p \o s

SetMin(S) == CHOOSE i \in S : \A j \in S : i <= j

SetMax(S) == CHOOSE i \in S : \A j \in S : i >= j

\* a host whose last label is a number must be a dotted-decimal IPv4 address
ValidLabels(labels) ==
    (labels[Len(labels)] # "" /\ AllIn(labels[Len(labels)], Digit)) =>
        /\ Len(labels) = 4
        /\ \A i \in 1..4 : /\ labels[i] # ""
                           /\ Len(labels[i]) <= 3
                           /\ AllIn(labels[i], Digit)
                           /\ DigitsToNat(labels[i]) <= 255

ValidHost(host) ==
    /\ \A i \in 1..Len(host) : Ch(host, i) \notin ForbiddenHostChars
    /\ ValidLabels(Split(host, "."))

URLFailure == [ok |-> FALSE]

\* url.port: empty when the port is the scheme's default
PortOf(portText, scheme) ==
    IF portText = "" \/ NatToString(DigitsToNat(portText)) = DefaultPort(scheme) THEN ""
    ELSE NatToString(DigitsToNat(portText))

ParseHost(scheme, host, portText, path, search, hash) ==
    IF \/ scheme \in SpecialSchemes /\ host = ""
       \/ ~AllIn(portText, Digit)
       \/ Len(portText) > 5
       \/ portText # "" /\ DigitsToNat(portText) > 65535
       \/ ~ValidHost(host)
    THEN URLFailure
    ELSE [ok |-> TRUE, protocol |-> scheme \o ":", hostname |-> ToLowerCase(host),
          port |-> PortOf(portText, scheme),
          pathname |-> IF scheme \in SpecialSchemes /\ path = "" THEN "/" ELSE path,
          search |-> search, hash |-> hash]

\* authority = [userinfo "@"] host [":" port]
ParseAuthority(scheme, hostport, path, search, hash) ==
    ParseHost(scheme, Before(hostport, LastIndexOf(hostport, ":")),
              After(hostport, LastIndexOf(hostport, ":")), path, search, hash)

\* index of the first path separator of body, Len(body) + 1 when there is none
PathStart(scheme, body) ==
    SetMin({i \in 1..Len(body) :
               Ch(body, i) = "/" \/ (scheme \in SpecialSchemes /\ Ch(body, i) = "\\")}
           \cup {Len(body) + 1})

\* the part of s after its last c; all of s when it has none
AfterLast(s, c) == From(s, LastIndexOf(s, c) + 1)

ParseHierarchical(scheme, body, search, hash) ==
    ParseAuthority(scheme, AfterLast(SubSeq(body, 1, PathStart(scheme, body) - 1), "@"),
                   From(body, PathStart(scheme, body)), search, hash)

ParseAfterScheme(scheme, beforeQuery, search, hash) ==
    IF scheme \in SpecialSchemes
    THEN ParseHierarchical(scheme, StripSlashes(beforeQuery), search, hash)
    ELSE IF StartsWith(beforeQuery, "//")
    THEN ParseHierarchical(scheme, From(beforeQuery, 3), search, hash)
    ELSE [ok |-> TRUE, protocol |-> scheme \o ":", hostname |-> "", port |-> "",
          pathname |-> beforeQuery, search |-> search, hash |-> hash]

ParseBeforeHash(scheme, beforeHash, hash) ==
    ParseAfterScheme(scheme, Before(beforeHash, IndexOf(beforeHash, "?")),
                     Prefixed("?", After(beforeHash, IndexOf(beforeHash, "?"))), hash)

ParseRest(scheme, rest) ==
    ParseBeforeHash(scheme, Before(rest, IndexOf(rest, "#")),
                    Prefixed("#", After(rest, IndexOf(rest, "#"))))

\* c is the position of the first ':' of s
HasScheme(s, c) ==
    /\ c > 1
    /\ Ch(s, 1) \in Alpha
    /\ AllIn(SubSeq(s, 2, c - 1), AlphaNum \cup {"+", "-", "."})

ParseTrimmed(s) ==
    IF HasScheme(s, IndexOf(s, ":"))
    THEN ParseRest(ToLowerCase(SubSeq(s, 1, IndexOf(s, ":") - 1)), From(s, IndexOf(s, ":") + 1))
    ELSE URLFailure

ParseURL(text) == ParseTrimmed(Trim(text))

\* decoding of application/x-www-form-urlencoded text ('+' is a space)
RECURSIVE PlusDecode(_)
PlusDecode(s) ==
    IF s = "" THEN ""
    ELSE (IF Ch(s, 1) = "+" THEN " " ELSE Ch(s, 1)) \o PlusDecode(From(s, 2))

\* name and value of one name=value piece of a query string
NameOf(p) == PlusDecode(Before(p, IndexOf(p, "=")))

ValueOf(p) == PlusDecode(After(p, IndexOf(p, "=")))

ParamsOf(pieces, name) ==
    LET hits == {i \in 1..Len(pieces) : pieces[i] # "" /\ NameOf(pieces[i]) = name}
    IN  IF hits = {} THEN Null ELSE ValueOf(pieces[SetMin(hits)])

\* new URLSearchParams(search).get(name): the first value of name, or null
ParamsGet(search, name) ==
    ParamsOf(Split(IF StartsWith(search, "?") THEN From(search, 2) ELSE search, "&"), name)

(***************************************************************************)
(* URLAnalyzer (services/urlAnalyzer.js)                                   *)
(***************************************************************************)
\* the characters excluded by [^\s\n\r<>"'] in urlPattern
UrlDelims == WhiteSpace \cup {"<", ">", "\"", "'"}

\* last index of the maximal run of non-delimiters that starts at j (j - 1 when empty)
RunEnd(s, j) == SetMin({k \in j..Len(s) : Ch(s, k) \in UrlDelims} \cup {Len(s) + 1}) - 1

LetterRunEnd(s, j) == SetMin({k \in j..Len(s) : Ch(s, k) \notin Alpha} \cup {Len(s) + 1}) - 1

\* end of the match of scheme:\/\/[^\s\n\r<>"']+ at position i, 0 when it does not match
SchemeMatchEnd(s, low, prefix, i) ==
    IF MatchAt(low, prefix, i) /\ RunEnd(s, i + Len(prefix)) >= i + Len(prefix)
    THEN RunEnd(s, i + Len(prefix)) ELSE 0

\* end of the match of www\.[^\s\n\r<>"']+\.[a-zA-Z]{2,} at position i, 0 when none:
\* the run is greedy, so the suffix starts at the last dot that two letters follow
WwwMatchEnd(s, low, i) ==
    LET dots == {d \in (i + 5)..RunEnd(s, i + 4) : /\ Ch(s, d) = "."
                                                   /\ d + 2 <= Len(s)
                                                   /\ Ch(s, d + 1) \in Alpha
                                                   /\ Ch(s, d + 2) \in Alpha}
    IN  IF ~MatchAt(low, "www.", i) \/ dots = {} THEN 0
        ELSE LetterRunEnd(s, SetMax(dots) + 1)

\* the first alternative that matches, in source order
FirstMatching(ends) ==
    IF \A k \in 1..Len(ends) : ends[k] = 0 THEN 0
    ELSE ends[SetMin({k \in 1..Len(ends) : ends[k] # 0})]

\* end of the match of urlPattern at position i, 0 when it does not match there
PatternMatchEnd(s, low, i) ==
    FirstMatching(<<SchemeMatchEnd(s, low, "https://", i),
                    SchemeMatchEnd(s, low, "http://", i),
                    SchemeMatchEnd(s, low, "ftp://", i),
                    WwwMatchEnd(s, low, i)>>)

TrailingPunctuation == {".", ",", ";", ":", "!", "?", ")", "]", "}", ">", "\"", "'"}

\* url.replace(/[.,;:!?)\]}>"\']$/, '')
DropTrailing(url) ==
    IF url # "" /\ Ch(url, Len(url)) \in TrailingPunctuation
    THEN SubSeq(url, 1, Len(url) - 1) ELSE url

EnsureProtocol(url) == IF StartsWith(url, "www.") THEN "http://" \o url ELSE url

\* starts: the positions of text at which urlPattern matches
FirstMatch(text, low, starts) ==
    IF starts = {} THEN Null
    ELSE EnsureProtocol(DropTrailing(Trim(
             SubSeq(text, SetMin(starts), PatternMatchEnd(text, low, SetMin(starts))))))

extractURLFromText(text) ==
    FirstMatch(text, ToLowerCase(text),
               {i \in 1..Len(text) : PatternMatchEnd(text, ToLowerCase(text), i) # 0})

isURL(text) == ParseURL(text).ok \/ extractURLFromText(text) # Null

OrElse(v, w) == IF v # Null THEN v ELSE w

getCleanURL(text) ==
    OrElse(extractURLFromText(text), IF ParseURL(text).ok THEN text ELSE Null)

(***************************************************************************)
(* UPIValidator (utils/upiValidator.js)                                    *)
(***************************************************************************)
upiPatterns == <<"upi://pay?", "paytm://pay?", "phonepe://pay?", "gpay://pay?", "bhim://pay?">>

isUPI(text) == \E k \in 1..Len(upiPatterns) : Includes(ToLowerCase(text), upiPatterns[k])

\* /^[a-zA-Z0-9._-]+@[a-zA-Z0-9.-]+$/
isValidVPA(vpa) ==
    LET a == IndexOf(vpa, "@")
    IN  /\ a > 1
        /\ a < Len(vpa)
        /\ AllIn(SubSeq(vpa, 1, a - 1), AlphaNum \cup {".", "_", "-"})
        /\ AllIn(From(vpa, a + 1), AlphaNum \cup {".", "-"})

\* /a.*b/i: a, then b later on the same line
MatchesThen(low, a, b) ==
    \E i \in 1..Len(low), j \in 1..Len(low) :
        /\ MatchAt(low, a, i)
        /\ MatchAt(low, b, j)
        /\ j >= i + Len(a)
        /\ \A k \in (i + Len(a))..(j - 1) : Ch(low, k) \notin {"\n", "\r"}

hasSuspiciousPatterns(text) ==
    LET low == ToLowerCase(text)
    IN  \/ Includes(low, "phishing")
        \/ Includes(low, "fake")
        \/ Includes(low, "scam")
        \/ MatchesThen(low, "urgent", "payment")
        \/ MatchesThen(low, "verify", "account")
        \/ MatchesThen(low, "suspend", "account")

requiredParams == <<"pa", "pn">>

\* !value for a string or null
Falsy(v) == v = Null \/ v = Undefined \/ v = ""

\* variant: the VPA format is not checked
validateParamsAnyVpa(search, vpa, payeeName) ==
    LET missing == SelectSeq(<<"pa", "pn">>, LAMBDA p : ParamsGet(search, p) \in {Null, ""})
        badPayee == payeeName \notin {Null, ""} /\ hasSuspiciousPatterns(payeeName)
    IN  [valid |-> (missing = <<>>) /\ ~badPayee,
         errors |->
             [i \in 1..Len(missing) |-> "Missing required parameter: " \o missing[i]]
             \o (IF badPayee THEN <<"Suspicious payee name detected">> ELSE <<>>),
         vpa |-> vpa,
         payeeName |-> payeeName,
         amount |-> ParamsGet(search, "am"),
         transactionNote |-> ParamsGet(search, "tn"),
         merchantCode |-> ParamsGet(search, "mc")]

\* validateUPI once the URL is parsed and pa, pn are read
validateParams(search, vpa, payeeName) ==
    LET missing == SelectSeq(requiredParams, LAMBDA p : Falsy(ParamsGet(search, p)))
        badVPA == ~Falsy(vpa) /\ ~isValidVPA(vpa)
        badPayee == ~Falsy(payeeName) /\ hasSuspiciousPatterns(payeeName)
    IN  [valid |-> (missing = <<>>) /\ ~badVPA /\ ~badPayee,
         errors |->
             [i \in 1..Len(missing) |-> "Missing required parameter: " \o missing[i]]
             \o (IF badVPA THEN <<"Invalid VPA format">> ELSE <<>>)
             \o (IF badPayee THEN <<"Suspicious payee name detected">> ELSE <<>>),
         vpa |-> vpa,
         payeeName |-> payeeName,
         amount |-> ParamsGet(search, "am"),
         transactionNote |-> ParamsGet(search, "tn"),
         merchantCode |-> ParamsGet(search, "mc")]

validateParsed(url) ==
    IF ~url.ok THEN [valid |-> FALSE, errors |-> <<"Invalid UPI URL format">>]
    ELSE validateParams(url.search, ParamsGet(url.search, "pa"), ParamsGet(url.search, "pn"))

validateUPI(upiString) == validateParsed(ParseURL(upiString))

(***************************************************************************)
(* SmartAnalyzer (services/smartAnalyzer.js)                               *)
(***************************************************************************)
suspiciousKeywords == <<
    "phishing", "malware", "virus", "hack", "steal", "password",
    "account", "verify", "urgent", "limited", "offer", "click",
    "winner", "prize", "free", "gift", "bonus", "promotion",
    "suspend", "locked", "confirm", "update", "secure", "bank",
    "paypal", "amazon", "microsoft", "google", "apple", "netflix",
    "crypto", "bitcoin", "wallet", "investment", "trading",
    "signin", "login", "security", "checkpoint", "verification",
    "customer", "support", "service", "help-desk", "validate",
    "restore", "recover", "unusual", "activity", "suspended",
    "action-required", "immediately", "expire", "temporary" >>

suspiciousDomains == <<
    "bit.ly", "tinyurl.com", "goo.gl", "t.co", "short.link",
    "tiny.cc", "lnkd.in", "rebrand.ly", "ow.ly", "buff.ly",
    "is.gd", "v.gd", "x.co", "po.st", "bc.vc", "cutt.ly" >>

suspiciousTLDs == <<
    ".tk", ".ml", ".ga", ".cf", ".pw", ".top", ".xyz", ".club",
    ".party", ".work", ".link", ".download", ".faith", ".win",
    ".bid", ".loan", ".racing", ".accountant", ".review", ".cricket",
    ".science", ".date", ".stream", ".trade", ".webcam", ".wang" >>

brandNames == <<
    "apple", "google", "microsoft", "amazon", "paypal", "netflix",
    "facebook", "instagram", "whatsapp", "twitter", "linkedin",
    "chase", "wellsfargo", "bankofamerica", "citibank", "hsbc",
    "fedex", "dhl", "ups", "usps", "irs", "uscis" >>

\* /^(\d{1,3}\.){3}\d{1,3}$/ on the labels of the parsed hostname
DottedQuad(labels) ==
    /\ Len(labels) = 4
    /\ \A i \in 1..4 : Len(labels[i]) \in 1..3 /\ AllIn(labels[i], Digit)

hasIPAddress(url) == ParseURL(url).ok /\ DottedQuad(Split(ParseURL(url).hostname, "."))

isURLShortener(url) ==
    \E k \in 1..Len(suspiciousDomains) : Includes(ToLowerCase(url), suspiciousDomains[k])

countSuspiciousKeywords(url) ==
    Cardinality({k \in 1..Len(suspiciousKeywords) :
                    Includes(ToLowerCase(url), suspiciousKeywords[k])})

\* /[-._~:/?#[\]@!$&'()*+,;=%]/g
SpecialChars == {"-", ".", "_", "~", ":", "/", "?", "#", "[", "]", "@", "!", "$", "&",
                 "'", "(", ")", "*", "+", ",", ";", "=", "%"}

countSpecialChars(url) == CountIn(url, SpecialChars)

Max2(a, b) == IF a >= b THEN a ELSE b
Min2(a, b) == IF a <= b THEN a ELSE b

countSubdomains(url) ==
    IF ~ParseURL(url).ok THEN 0 ELSE Max2(0, Len(Split(ParseURL(url).hostname, ".")) - 2)

hasPort(url) == ParseURL(url).ok /\ ParseURL(url).port # ""

hasSuspiciousTLD(url) ==
    LET low == ToLowerCase(url)
    IN  \E k \in 1..Len(suspiciousTLDs) :
            EndsWith(low, suspiciousTLDs[k]) \/ Includes(low, suspiciousTLDs[k] \o "/")

\* every brand found in the text is compared with the host; a text that does not parse
\* makes the first comparison throw, which returns false
BrandElsewhere(lowerUrl, domain) ==
    \E k \in 1..Len(brandNames) :
        /\ Includes(lowerUrl, brandNames[k])
        /\ ~EndsWith(domain, brandNames[k] \o ".com")
        /\ ~EndsWith(domain, brandNames[k] \o ".net")

hasBrandNameImpersonation(url) ==
    ParseURL(url).ok /\ BrandElsewhere(ToLowerCase(url), ParseURL(url).hostname)

typosquattingPatterns == <<"app1e", "g00gle", "micr0soft", "amaz0n", "paypa1", "netf1ix">>

detectTyposquatting(url) ==
    ParseURL(url).ok /\ \E k \in 1..Len(typosquattingPatterns) :
                            Includes(ParseURL(url).hostname, typosquattingPatterns[k])

calculateDigitRatio(url) ==
    IF Len(url) > 0 THEN QNorm(Q(CountIn(url, Digit), Len(url))) ELSE Q(0, 1)

calculateCharDiversity(url) ==
    IF Len(url) > 0 THEN QNorm(Q(Cardinality(CharSet(ToLowerCase(url))), Len(url)))
    ELSE Q(0, 1)

\* the lengths of the parts of the parsed URL, 0 when the text does not parse
PartLength(urlObj, part) == IF urlObj.ok THEN Len(urlObj[part]) ELSE 0

extractFeatures(url) ==
        [urlLength |-> Len(url),
         hasIP |-> hasIPAddress(url),
         isShortener |-> isURLShortener(url),
         suspiciousKeywordCount |-> countSuspiciousKeywords(url),
         specialCharCount |-> countSpecialChars(url),
         subdomainCount |-> countSubdomains(url),
         hasPort |-> hasPort(url),
         hasSuspiciousTLD |-> hasSuspiciousTLD(url),
         isHTTPS |-> StartsWith(url, "https://"),
         dotCount |-> CountIn(url, {"."}),
         hyphenCount |-> CountIn(url, {"-"}),
         underscoreCount |-> CountIn(url, {"_"}),
         slashCount |-> CountIn(url, {"/"}),
         questionMarkCount |-> CountIn(url, {"?"}),
         equalCount |-> CountIn(url, {"="}),
         atCount |-> CountIn(url, {"@"}),
         ampersandCount |-> CountIn(url, {"&"}),
         hasBrandName |-> hasBrandNameImpersonation(url),
         hasTyposquatting |-> detectTyposquatting(url),
         domainLength |-> PartLength(ParseURL(url), "hostname"),
         pathLength |-> PartLength(ParseURL(url), "pathname"),
         queryLength |-> PartLength(ParseURL(url), "search"),
         fragmentLength |-> PartLength(ParseURL(url), "hash"),
         specialCharRatio |-> QNorm(Q(countSpecialChars(url), Len(url))),
         digitRatio |-> calculateDigitRatio(url),
         charDiversity |-> calculateCharDiversity(url)]

\* the trained-weights table: kind "none" is a missing file (trainedModel = null),
\* "array" a table with top_features, "absent" a table without top_features,
\* "notArray" a table whose top_features is not a list
NoModel == [kind |-> "none", top_features |-> <<>>]

Loaded(tm) == tm.kind # "none"

\* the blocks of calculateRiskScore, in source order
ruleRows == <<"protocol", "length", "ip", "shortener", "keywords", "brand", "typosquatting",
              "specialChars", "subdomains", "port", "tld", "dots", "hyphens", "underscores",
              "diversity", "digits", "query">>

\* what one block adds to the score, in hundredths
ruleContribution(row, f) ==
    CASE row = "protocol" -> IF ~f.isHTTPS THEN 40 ELSE 0
      [] row = "length" -> IF f.urlLength > 150 THEN 30
                           ELSE IF f.urlLength > 80 THEN 20
                           ELSE IF f.urlLength < 15 THEN 15 ELSE 0
      [] row = "ip" -> IF f.hasIP THEN 60 ELSE 0
      [] row = "shortener" -> IF f.isShortener THEN 50 ELSE 0
      [] row = "keywords" -> IF f.suspiciousKeywordCount > 2 THEN 50
                             ELSE IF f.suspiciousKeywordCount > 0 THEN 30 ELSE 0
      [] row = "brand" -> IF f.hasBrandName THEN 50 ELSE 0
      [] row = "typosquatting" -> IF f.hasTyposquatting THEN 40 ELSE 0
      [] row = "specialChars" -> IF QLess(Pct(35), f.specialCharRatio) THEN 30
                                 ELSE IF QLess(Pct(20), f.specialCharRatio) THEN 15 ELSE 0
      [] row = "subdomains" -> IF f.subdomainCount > 3 THEN 30
                               ELSE IF f.subdomainCount > 1 THEN 15 ELSE 0
      [] row = "port" -> IF f.hasPort THEN 25 ELSE 0
      [] row = "tld" -> IF f.hasSuspiciousTLD THEN 50 ELSE 0
      [] row = "dots" -> IF f.dotCount > 5 THEN 20 ELSE 0
      [] row = "hyphens" -> IF f.hyphenCount > 4 THEN 20 ELSE 0
      [] row = "underscores" -> IF f.underscoreCount > 2 THEN 15 ELSE 0
      [] row = "diversity" -> IF QLess(Pct(85), f.charDiversity) \/ QLess(f.charDiversity, Pct(30))
                              THEN 15 ELSE 0
      [] row = "digits" -> IF QLess(Pct(35), f.digitRatio) THEN 15 ELSE 0
      [] row = "query" -> IF f.queryLength > 50 THEN 20 ELSE 0

RECURSIVE SumSeq(_)
SumSeq(xs) == IF xs = <<>> THEN 0 ELSE Head(xs) + SumSeq(Tail(xs))

calculateRiskScore(f) ==
    LET score == SumSeq([i \in 1..Len(ruleRows) |-> ruleContribution(ruleRows[i], f)])
    IN  Pct(Max2(0, Min2(score, 100)))

Bit(b) == IF b THEN Q(1, 1) ELSE Q(0, 1)

getFeatureValue(f, featureName) ==
    CASE featureName = "url_length" -> Q(f.urlLength, 1)
      [] featureName = "has_ip" -> Bit(f.hasIP)
      [] featureName = "is_shortener" -> Bit(f.isShortener)
      [] featureName = "suspicious_keyword_count" -> Q(f.suspiciousKeywordCount, 1)
      [] featureName = "subdomain_count" -> Q(f.subdomainCount, 1)
      [] featureName = "has_port" -> Bit(f.hasPort)
      [] featureName = "is_https" -> Bit(f.isHTTPS)
      [] featureName = "dot_count" -> Q(f.dotCount, 1)
      [] featureName = "hyphen_count" -> Q(f.hyphenCount, 1)
      [] featureName = "special_char_ratio" -> f.specialCharRatio
      [] featureName = "domain_length" -> Q(f.domainLength, 1)
      [] featureName = "path_length" -> Q(f.pathLength, 1)
      [] featureName = "query_length" -> Q(f.queryLength, 1)
      [] featureName = "char_diversity" -> f.charDiversity
      [] featureName = "digit_ratio" -> f.digitRatio
      [] featureName = "has_suspicious_tld" -> Bit(f.hasSuspiciousTLD)
      [] featureName = "has_brand_name" -> Bit(f.hasBrandName)
      [] OTHER -> Q(0, 1)

riskThresholds(featureName) ==
    CASE featureName = "url_length" -> Q(80, 1)
      [] featureName = "has_ip" -> Q(1, 2)
      [] featureName = "is_shortener" -> Q(1, 2)
      [] featureName = "suspicious_keyword_count" -> Q(1, 1)
      [] featureName = "subdomain_count" -> Q(2, 1)
      [] featureName = "has_port" -> Q(1, 2)
      [] featureName = "is_https" -> Q(0 - 1, 1)
      [] featureName = "dot_count" -> Q(4, 1)
      [] featureName = "hyphen_count" -> Q(3, 1)
      [] featureName = "special_char_ratio" -> Pct(25)
      [] featureName = "domain_length" -> Q(30, 1)
      [] featureName = "path_length" -> Q(50, 1)
      [] featureName = "query_length" -> Q(30, 1)
      [] featureName = "char_diversity" -> Pct(70)
      [] featureName = "digit_ratio" -> Pct(25)
      [] featureName = "has_suspicious_tld" -> Q(1, 2)
      [] featureName = "has_brand_name" -> Q(1, 2)
      [] OTHER -> Q(0, 1)

isHighRiskFeature(featureName, value) ==
    IF featureName = "is_https" THEN QLess(value, riskThresholds(featureName))
    ELSE QLess(riskThresholds(featureName), value)

RECURSIVE MaxSeq(_)
MaxSeq(xs) == IF Len(xs) = 1 THEN Head(xs) ELSE Max2(Head(xs), MaxSeq(Tail(xs)))

\* a fraction with its sign in the numerator
QDiv(n, d) == IF d < 0 THEN QNorm(Q(0 - n, 0 - d)) ELSE QNorm(Q(n, d))

\* throws when top_features is not a list; the division imp / maxImp is exact
predictThrows(tm) == tm.kind = "notArray"

predictWithTrainedModel(tm, f) ==
    LET topFeatures == SubSeq(tm.top_features, 1, Min2(20, Len(tm.top_features)))
        maxImportance == MaxSeq([i \in 1..Len(topFeatures) |-> topFeatures[i][2]])
        hit == [i \in 1..Len(topFeatures) |->
                   IF isHighRiskFeature(topFeatures[i][1], getFeatureValue(f, topFeatures[i][1]))
                   THEN topFeatures[i][2] ELSE 0]
        score == QDiv(25 * SumSeq(hit), 100 * maxImportance)
    IN  IF ~Loaded(tm) \/ tm.kind = "absent" \/ topFeatures = <<>> THEN Q(0, 1)
        ELSE QMin(score, Q(1, 1))

RECURSIVE Join(_, _)
Join(parts, sep) ==
    IF parts = <<>> THEN ""
    ELSE IF Len(parts) = 1 THEN Head(parts)
    ELSE Head(parts) \o sep \o Join(Tail(parts), sep)

Frag(cond, text) == IF cond THEN <<text>> ELSE <<>>

generateReason(tm, f, riskScore) ==
    LET reasons ==
            Frag(~f.isHTTPS, "Uses insecure HTTP protocol")
         \o Frag(f.hasIP, "Uses IP address instead of domain name")
         \o Frag(f.isShortener, "Known URL shortener service")
         \o Frag(f.suspiciousKeywordCount > 0,
                 "Contains " \o NatToString(f.suspiciousKeywordCount) \o " suspicious keyword(s)")
         \o Frag(f.hasBrandName, "Possible brand impersonation detected")
         \o Frag(f.hasTyposquatting, "Possible typosquatting (misspelled domain)")
         \o Frag(f.urlLength > 150, "Extremely long URL")
         \o Frag(f.urlLength > 80, "Unusually long URL")
         \o Frag(f.urlLength < 15, "Suspiciously short URL")
         \o Frag(QLess(Pct(35), f.specialCharRatio), "High ratio of special characters")
         \o Frag(f.subdomainCount > 3, "Too many subdomains")
         \o Frag(f.hasPort, "Uses non-standard port")
         \o Frag(f.hasSuspiciousTLD, "Suspicious top-level domain")
         \o Frag(f.dotCount > 5, "Excessive dots in URL")
         \o Frag(f.hyphenCount > 4, "Excessive hyphens in URL")
         \o Frag(f.queryLength > 50, "Long query parameters (common in phishing)")
         \o Frag(Loaded(tm) /\ QLess(Pct(40), riskScore), "ML model detected suspicious patterns")
    IN  IF Len(reasons) > 0 THEN Join(reasons, "; ") ELSE "No suspicious patterns detected"

\* the body of analyzeURL after extractFeatures
analyzeFeatures(tm, f) ==
    LET ruleScore == calculateRiskScore(f)
        riskScore ==
            IF Loaded(tm) /\ ~predictThrows(tm)
            THEN QNorm(QAdd(QMul(ruleScore, Q(3, 10)), QMul(predictWithTrainedModel(tm, f), Q(7, 10))))
            ELSE ruleScore
    IN  [isSuspicious |-> QLess(Pct(40), riskScore),
         severity |-> IF QLess(Pct(70), riskScore) THEN "high"
                      ELSE IF QLess(Pct(40), riskScore) THEN "medium" ELSE "low",
         confidence |-> QNorm(QMin(QAdd(riskScore, Pct(15)), Q(1, 1))),
         reason |-> generateReason(tm, f, riskScore),
         details |-> f,
         mlModelUsed |-> Loaded(tm),
         riskScore |-> riskScore]

analyzeURL(tm, url) == analyzeFeatures(tm, extractFeatures(url))

(***************************************************************************)
(* urlController.checkURL: the steps that build `result`                   *)
(***************************************************************************)
\* a boolean stored in the checks map; Null is "unavailable", Undefined "no entry"
JsBool(b) == IF b THEN "true" ELSE "false"

NoAnalysis == [present |-> FALSE]

\* let result = {...} with empty checks
InitialResult(url, cleanURL, analyzingURL) ==
    [status |-> "safe",
     contentType |-> Null,
     threatType |-> Null,
     checks |-> [httpsProtocol |-> Undefined, safeBrowsing |-> Undefined,
                 smartAnalyzer |-> Undefined, upiFormat |-> Undefined],
     confidence |-> Q(0, 1),
     source |-> "analysis",
     originalText |-> IF url # analyzingURL THEN url ELSE Undefined,
     analyzedURL |-> IF cleanURL # Null THEN cleanURL ELSE Undefined,
     analysis |-> NoAnalysis]

\* variant: an invalid payment URI is recorded in the checks map but keeps the status
upiBranchRecordsOnly(result, upiValidation) ==
    [result EXCEPT !.contentType = "upi",
                   !.checks.upiFormat = JsBool(upiValidation.valid),
                   !.confidence = IF upiValidation.valid THEN Pct(90) ELSE Pct(70)]

upiBranch(result, upiValidation) ==
    IF ~upiValidation.valid
    THEN [result EXCEPT !.contentType = "upi",
                        !.checks.upiFormat = JsBool(upiValidation.valid),
                        !.status = "suspicious",
                        !.threatType = "Invalid UPI format",
                        !.confidence = Pct(70)]
    ELSE [result EXCEPT !.contentType = "upi",
                        !.checks.upiFormat = JsBool(upiValidation.valid),
                        !.confidence = Pct(90)]

\* variant: the protocol check only records the checks entry and leaves the status alone
protocolCheckRecordsOnly(result, analyzingURL) ==
    IF StartsWith(analyzingURL, "http://") /\ ~StartsWith(analyzingURL, "https://")
    THEN [result EXCEPT !.contentType = "url", !.checks.httpsProtocol = "false"]
    ELSE IF StartsWith(analyzingURL, "https://")
    THEN [result EXCEPT !.contentType = "url", !.checks.httpsProtocol = "true"]
    ELSE [result EXCEPT !.contentType = "url"]

protocolCheck(result, analyzingURL) ==
    IF StartsWith(analyzingURL, "http://") /\ ~StartsWith(analyzingURL, "https://")
    THEN [result EXCEPT !.contentType = "url",
                        !.status = "suspicious",
                        !.threatType = "Insecure HTTP protocol",
                        !.checks.httpsProtocol = "false",
                        !.confidence = Pct(45)]
    ELSE IF StartsWith(analyzingURL, "https://")
    THEN [result EXCEPT !.contentType = "url", !.checks.httpsProtocol = "true"]
    ELSE [result EXCEPT !.contentType = "url"]

\* variant: a failed lookup is treated as an unsafe verdict
applySafeBrowsingFailUnsafe(result, sb) ==
    IF sb.threw \/ ~sb.safe
    THEN [result EXCEPT !.status = "malicious",
                        !.threatType = IF Falsy(sb.threatType)
                                       THEN "Malicious URL detected by Google Safe Browsing"
                                       ELSE sb.threatType,
                        !.source = "google_safe_browsing",
                        !.checks.safeBrowsing = IF sb.threw THEN Null ELSE "false",
                        !.confidence = Pct(95)]
    ELSE [result EXCEPT !.checks.safeBrowsing = "true"]

\* variant: a failed lookup leaves a note in threatType
applySafeBrowsingNotesFailure(result, sb) ==
    IF sb.threw THEN [result EXCEPT !.checks.safeBrowsing = Null,
                                    !.threatType = "Safe Browsing unavailable"]
    ELSE IF ~sb.safe
    THEN [result EXCEPT !.status = "malicious",
                        !.threatType = IF Falsy(sb.threatType)
                                       THEN "Malicious URL detected by Google Safe Browsing"
                                       ELSE sb.threatType,
                        !.source = "google_safe_browsing",
                        !.checks.safeBrowsing = "false",
                        !.confidence = Pct(95)]
    ELSE [result EXCEPT !.checks.safeBrowsing = "true"]

\* variant: a clean verdict clears what the protocol check found
applySafeBrowsingClears(result, sb) ==
    IF sb.threw THEN [result EXCEPT !.checks.safeBrowsing = Null]
    ELSE IF ~sb.safe
    THEN [result EXCEPT !.status = "malicious",
                        !.threatType = IF Falsy(sb.threatType)
                                       THEN "Malicious URL detected by Google Safe Browsing"
                                       ELSE sb.threatType,
                        !.source = "google_safe_browsing",
                        !.checks.safeBrowsing = "false",
                        !.confidence = Pct(95)]
    ELSE [result EXCEPT !.status = "safe", !.threatType = Null, !.confidence = Q(0, 1),
                        !.checks.safeBrowsing = "true"]

\* sb is what `await safeBrowsingService.checkURL(...)` produced:
\* [threw |-> TRUE] or [threw |-> FALSE, safe |-> ..., threatType |-> ...]
applySafeBrowsing(result, sb) ==
    IF sb.threw THEN [result EXCEPT !.checks.safeBrowsing = Null]
    ELSE IF ~sb.safe
    THEN [result EXCEPT !.status = "malicious",
                        !.threatType = IF Falsy(sb.threatType)
                                       THEN "Malicious URL detected by Google Safe Browsing"
                                       ELSE sb.threatType,
                        !.source = "google_safe_browsing",
                        !.checks.safeBrowsing = "false",
                        !.confidence = Pct(95)]
    ELSE [result EXCEPT !.checks.safeBrowsing = "true"]

\* variant: a suspicious analysis always replaces the status, whatever it was
applySmartAnalyzerOverrides(result, sa) ==
    LET ar == sa.value
        checked == [result EXCEPT !.checks.smartAnalyzer = JsBool(~ar.isSuspicious)]
        merged ==
            IF ar.isSuspicious
            THEN [checked EXCEPT !.status = IF ar.severity = "high" THEN "malicious"
                                            ELSE "suspicious",
                                 !.threatType = ar.reason,
                                 !.source = "smart_analyzer",
                                 !.confidence = ar.confidence]
            ELSE IF result.status = "safe"
            THEN [checked EXCEPT !.confidence = ar.confidence]
            ELSE checked
    IN  IF sa.threw THEN [result EXCEPT !.checks.smartAnalyzer = Null]
        ELSE [merged EXCEPT !.analysis = [present |-> TRUE,
                                          reason |-> ar.reason,
                                          riskScore |-> ar.riskScore,
                                          mlModelUsed |-> ar.mlModelUsed,
                                          severity |-> ar.severity,
                                          details |-> ar.details]]

\* variant: no escalation branch; a 'suspicious' status is kept whatever the severity
applySmartAnalyzerNoEscalation(result, sa) ==
    LET ar == sa.value
        checked == [result EXCEPT !.checks.smartAnalyzer = JsBool(~ar.isSuspicious)]
        merged ==
            IF ar.isSuspicious THEN
                IF result.status = "safe"
                THEN [checked EXCEPT !.status = IF ar.severity = "high" THEN "malicious"
                                                ELSE "suspicious",
                                     !.threatType = ar.reason,
                                     !.source = "smart_analyzer",
                                     !.confidence = ar.confidence]
                ELSE [checked EXCEPT
                         !.threatType =
                             IF ~Falsy(result.threatType) /\ ~Includes(result.threatType, ar.reason)
                             THEN result.threatType \o "; " \o ar.reason
                             ELSE result.threatType,
                         !.confidence = QMax(result.confidence, ar.confidence)]
            ELSE IF result.status = "safe"
            THEN [checked EXCEPT !.confidence = ar.confidence]
            ELSE checked
    IN  IF sa.threw THEN [result EXCEPT !.checks.smartAnalyzer = Null]
        ELSE [merged EXCEPT !.analysis = [present |-> TRUE,
                                          reason |-> ar.reason,
                                          riskScore |-> ar.riskScore,
                                          mlModelUsed |-> ar.mlModelUsed,
                                          severity |-> ar.severity,
                                          details |-> ar.details]]

\* variant: the combine branch takes the scorer's confidence instead of the larger one
applySmartAnalyzerLastConfidence(result, sa) ==
    LET ar == sa.value
        checked == [result EXCEPT !.checks.smartAnalyzer = JsBool(~ar.isSuspicious)]
        merged ==
            IF ar.isSuspicious THEN
                IF result.status = "safe"
                THEN [checked EXCEPT !.status = IF ar.severity = "high" THEN "malicious"
                                                ELSE "suspicious",
                                     !.threatType = ar.reason,
                                     !.source = "smart_analyzer",
                                     !.confidence = ar.confidence]
                ELSE IF result.status = "suspicious" /\ ar.severity = "high"
                THEN [checked EXCEPT !.status = "malicious",
                                     !.threatType = ar.reason,
                                     !.source = "smart_analyzer",
                                     !.confidence = ar.confidence]
                ELSE [checked EXCEPT
                         !.threatType =
                             IF ~Falsy(result.threatType) /\ ~Includes(result.threatType, ar.reason)
                             THEN result.threatType \o "; " \o ar.reason
                             ELSE result.threatType,
                         !.confidence = ar.confidence]
            ELSE IF result.status = "safe"
            THEN [checked EXCEPT !.confidence = ar.confidence]
            ELSE checked
    IN  IF sa.threw THEN [result EXCEPT !.checks.smartAnalyzer = Null]
        ELSE [merged EXCEPT !.analysis = [present |-> TRUE,
                                          reason |-> ar.reason,
                                          riskScore |-> ar.riskScore,
                                          mlModelUsed |-> ar.mlModelUsed,
                                          severity |-> ar.severity,
                                          details |-> ar.details]]

\* sa is what smartAnalyzer.analyzeURL(...) produced:
\* [threw |-> TRUE] or [threw |-> FALSE, value |-> analysisResult]
applySmartAnalyzer(result, sa) ==
    LET ar == sa.value
        checked == [result EXCEPT !.checks.smartAnalyzer = JsBool(~ar.isSuspicious)]
        merged ==
            IF ar.isSuspicious THEN
                IF result.status = "safe"
                THEN [checked EXCEPT !.status = IF ar.severity = "high" THEN "malicious"
                                                ELSE "suspicious",
                                     !.threatType = ar.reason,
                                     !.source = "smart_analyzer",
                                     !.confidence = ar.confidence]
                ELSE IF result.status = "suspicious" /\ ar.severity = "high"
                THEN [checked EXCEPT !.status = "malicious",
                                     !.threatType = ar.reason,
                                     !.source = "smart_analyzer",
                                     !.confidence = ar.confidence]
                ELSE [checked EXCEPT
                         !.threatType =
                             IF ~Falsy(result.threatType) /\ ~Includes(result.threatType, ar.reason)
                             THEN result.threatType \o "; " \o ar.reason
                             ELSE result.threatType,
                         !.confidence = QMax(result.confidence, ar.confidence)]
            ELSE IF result.status = "safe"
            THEN [checked EXCEPT !.confidence = ar.confidence]
            ELSE checked
    IN  IF sa.threw THEN [result EXCEPT !.checks.smartAnalyzer = Null]
        ELSE [merged EXCEPT !.analysis = [present |-> TRUE,
                                          reason |-> ar.reason,
                                          riskScore |-> ar.riskScore,
                                          mlModelUsed |-> ar.mlModelUsed,
                                          severity |-> ar.severity,
                                          details |-> ar.details]]

\* variant: the text branch leaves the initial confidence in place
textBranchNoConfidence(result) ==
    [result EXCEPT !.contentType = "text",
                   !.status = "safe",
                   !.threatType = "Plain text content - no URL detected"]

textBranch(result) ==
    [result EXCEPT !.contentType = "text",
                   !.status = "safe",
                   !.threatType = "Plain text content - no URL detected",
                   !.confidence = Pct(50)]

\* which branch of the content-type detection the text takes
contentTypeOf(cleanURL, analyzingURL) ==
    IF isUPI(analyzingURL) THEN "upi"
    ELSE IF cleanURL # Null \/ isURL(analyzingURL) THEN "url"
    ELSE "text"

(***************************************************************************)
(* Bounds and input domains                                                *)
(***************************************************************************)
MaxRequests == 2      \* checkURL invocations in one behaviour
MaxTopFeatures == 2   \* entries of top_features in an explored table
MaxImportance == 2    \* largest importance of an entry
MaxChanged == 2       \* features of an explored vector that differ from the baseline

\* req.body.url: absent, a string, or a JSON value that is not a string
Texts == {"https://google.com",
          "http://192.168.1.1/login?verify=account",
          "upi://pay?pa=merchant@bank&pn=Store",
          "upi://pay?pn=Store",
          "just some plain text",
          "http://example.org/docs/pagename.",
          "ftp://login-verify.tk/secure",
          "upi://pay?pa=a@b&pn=S www.example.org",
          "https://a.io/upi://pay?pa=a@b&pn=S"}

Bodies == {[kind |-> "absent", text |-> ""], [kind |-> "number", text |-> "42"]}
          \cup {[kind |-> "string", text |-> t] : t \in Texts \cup {""}}

\* what the lookup resolves with; threatType is match.threatType of the first match,
\* Undefined when the match carries none
SafeBrowsingResults ==
    {[threw |-> FALSE, safe |-> TRUE, threatType |-> Undefined]}
    \cup {[threw |-> FALSE, safe |-> FALSE, threatType |-> t] : t \in {"MALWARE", Undefined}}

SafeBrowsingThrew == [threw |-> TRUE, safe |-> FALSE, threatType |-> Undefined]

\* the value of the `sb` field of a request whose lookup has not settled
NotSettled == [threw |-> FALSE, safe |-> TRUE, threatType |-> Undefined]

\* the names a table may list, and the tables explored by the scorer harness
TableNames == {"is_https", "char_diversity", "path_length"}

RECURSIVE SeqsUpTo(_, _)
SeqsUpTo(S, n) ==
    IF n = 0 THEN {<<>>}
    ELSE SeqsUpTo(S, n - 1)
         \cup {Append(q, x) : q \in {p \in SeqsUpTo(S, n - 1) : Len(p) = n - 1}, x \in S}

\* lists of distinct features whose largest importance is not 0 (importance / 0 is not modelled)
TopFeatureLists ==
    {q \in SeqsUpTo({<<name, imp>> : name \in TableNames, imp \in (0 - 1)..MaxImportance},
                    MaxTopFeatures) :
        /\ \A i, j \in 1..Len(q) : i # j => q[i][1] # q[j][1]
        /\ (q # <<>> => MaxSeq([i \in 1..Len(q) |-> q[i][2]]) # 0)}

Tables == {NoModel,
           [kind |-> "absent", top_features |-> <<>>],
           [kind |-> "notArray", top_features |-> <<>>]}
          \cup {[kind |-> "array", top_features |-> q] : q \in TopFeatureLists}

\* the features of a plain https URL: no block of calculateRiskScore is triggered
BaselineFeatures == extractFeatures("https://a.io/blogdraftnew")

SampleTable == [kind |-> "array", top_features |-> << <<"has_ip", 2>>, <<"url_length", 1>> >>]

ServerTables == {NoModel, SampleTable}

(***************************************************************************)
(* The request handler as a state machine.  checkURL runs synchronously up *)
(* to `await safeBrowsingService.checkURL(...)` and, once that settles,    *)
(* synchronously to res.json(result).                                      *)
(***************************************************************************)
NoResponse == [http |-> 0]

\* SafeBrowsingService.checkURL up to its await: without an API key it resolves
\* {safe: true} without a network call, otherwise axios.post is in flight
lookupStarted(key) == IF key THEN "inFlight" ELSE "noKey"

NewRequest(body, url, cleanURL, analyzingURL) ==
    [pc |-> "start", body |-> body, analyzingURL |-> analyzingURL,
     result |-> InitialResult(url, cleanURL, analyzingURL),
     afterProtocol |-> InitialResult(url, cleanURL, analyzingURL),
     afterLookup |-> InitialResult(url, cleanURL, analyzingURL),
     lookup |-> "none", sb |-> NotSettled, analyzerThrew |-> FALSE,
     classified |-> FALSE, upiCalls |-> 0, lookupCalls |-> 0, analyzerCalls |-> 0,
     responses |-> 0, response |-> NoResponse]

Respond(req, http, payload) ==
    [req EXCEPT !.pc = "done", !.responses = @ + 1,
                !.response = [http |-> http, body |-> payload]]

\* the url branch up to the await: the protocol check is done, the lookup is called
AwaitLookup(req, withProtocol, key, answers) ==
    [req EXCEPT !.pc = "awaitSafeBrowsing",
                !.result = withProtocol,
                !.afterProtocol = withProtocol,
                !.lookupCalls = 1,
                !.lookup = IF lookupStarted(key) = "noKey" THEN "noKey"
                           ELSE IF answers THEN "inFlight" ELSE "silent"]

\* the branch of the content type detection that `type` selects
Dispatch(req, type, key, answers) ==
    IF type = "upi"
    THEN Respond([req EXCEPT !.upiCalls = 1], 200,
                 upiBranch(req.result, validateUPI(req.analyzingURL)))
    ELSE IF type = "url"
    THEN AwaitLookup(req, protocolCheck(req.result, req.analyzingURL), key, answers)
    ELSE Respond(req, 200, textBranch(req.result))

Classify(body, cleanURL, analyzingURL, key, answers) ==
    Dispatch([NewRequest(body, body.text, cleanURL, analyzingURL) EXCEPT !.classified = TRUE],
             contentTypeOf(cleanURL, analyzingURL), key, answers)

\* const analyzingURL = cleanURL || url
WithCleanURL(body, cleanURL, key, answers) ==
    Classify(body, cleanURL, OrElse(cleanURL, body.text), key, answers)

\* variant: no `if (!url)` guard; an absent url makes text.match throw, an empty one
\* goes through content-type detection
BeginUnguarded(body, key, answers) ==
    IF body.kind = "absent" \/ body.kind = "number"
    THEN Respond(NewRequest(body, body.text, Null, body.text), 500,
                 [status |-> "error", message |-> "Internal server error"])
    ELSE WithCleanURL(body, getCleanURL(body.text), key, answers)

\* checkURL from its entry to the first await or to the response
Begin(body, key, answers) ==
    IF body.kind = "absent" \/ body.text = ""
    THEN Respond(NewRequest(body, body.text, Null, body.text), 400,
                 [status |-> "error", message |-> "URL is required"])
    ELSE IF body.kind = "number"
    THEN Respond(NewRequest(body, body.text, Null, body.text), 500,
                 [status |-> "error", message |-> "Internal server error"])
    ELSE WithCleanURL(body, getCleanURL(body.text), key, answers)

\* the handler's synchronous prefix, tabulated once per input
BeginOf == [body \in Bodies, key \in BOOLEAN, answers \in BOOLEAN |-> Begin(body, key, answers)]

\* the texts that reach the scorer, and the scorer's result for each, tabulated once
AnalysisOf ==
    [tm \in ServerTables, url \in {BeginOf[body, TRUE, TRUE].analyzingURL : body \in Bodies}
        |-> analyzeURL(tm, url)]

\* what the try block around smartAnalyzer.analyzeURL yields
scorerStep(tm, url, analyzerFault) ==
    IF analyzerFault THEN [threw |-> TRUE, value |-> NoAnalysis]
    ELSE [threw |-> FALSE, value |-> AnalysisOf[tm, url]]

Finish(req, sb, analyzerFault, afterLookup, final) ==
    Respond([req EXCEPT !.sb = sb, !.afterLookup = afterLookup, !.result = final,
                        !.analyzerCalls = 1, !.analyzerThrew = analyzerFault],
            200, final)

\* variant: no try block around the scorer, so its exception reaches the outer catch
FuseUncaught(req, sb, analyzerFault, afterLookup, sa) ==
    IF analyzerFault
    THEN Respond([req EXCEPT !.sb = sb, !.afterLookup = afterLookup,
                             !.analyzerCalls = 1, !.analyzerThrew = analyzerFault],
                 500, [status |-> "error", message |-> "Internal server error"])
    ELSE Finish(req, sb, analyzerFault, afterLookup, applySmartAnalyzer(afterLookup, sa))

Fuse(req, sb, analyzerFault, afterLookup, sa) ==
    Finish(req, sb, analyzerFault, afterLookup, applySmartAnalyzer(afterLookup, sa))

\* variant: `result` is one object shared by all invocations, so the continuation
\* works on the object the latest invocation initialised
ResumeSharedResult(req, sb, analyzerFault) ==
    Fuse(req, sb, analyzerFault, applySafeBrowsing(requests[Len(requests)].result, sb),
         scorerStep(trainedModel, req.analyzingURL, analyzerFault))

\* checkURL from the settled await to res.json(result)
Resume(req, sb, analyzerFault) ==
    Fuse(req, sb, analyzerFault, applySafeBrowsing(req.result, sb),
         scorerStep(trainedModel, req.analyzingURL, analyzerFault))

\* useState: nothing scanned, no result (status Null, from no call), not loading
InitialApp == [decodedText |-> "", result |-> [of |-> 0, status |-> Null], loading |-> FALSE]

Init ==
    /\ trainedModel \in ServerTables
    /\ apiKey \in BOOLEAN
    /\ requests = <<>>
    /\ features = BaselineFeatures
    /\ analysis = analyzeFeatures(trainedModel, features)
    /\ app = InitialApp

\* variant: the patterns are shared /g regular expressions, so a successful test()
\* leaves lastIndex set and the next test() of the same object fails: every second
\* payment text skips the upi branch
ReceiveSharedRegex(body, answers) ==
    /\ Len(requests) < MaxRequests
    /\ requests' = Append(requests,
           IF /\ BeginOf[body, apiKey, answers].upiCalls = 1
              /\ Len(SelectSeq(requests, LAMBDA r : r.upiCalls = 1)) % 2 = 1
           THEN Dispatch([NewRequest(body, body.text, getCleanURL(body.text),
                                     OrElse(getCleanURL(body.text), body.text))
                             EXCEPT !.classified = TRUE],
                         IF getCleanURL(body.text) # Null THEN "url" ELSE "text",
                         apiKey, answers)
           ELSE BeginOf[body, apiKey, answers])
    /\ UNCHANGED <<trainedModel, apiKey, features, analysis, app>>

\* a request arrives; `answers` is whether the external service will ever answer it
Receive(body, answers) ==
    /\ Len(requests) < MaxRequests
    /\ requests' = Append(requests, BeginOf[body, apiKey, answers])
    /\ UNCHANGED <<trainedModel, apiKey, features, analysis, app>>

\* the awaited lookup resolves with a verdict
SafeBrowsingResolves(i, sb, analyzerFault) ==
    /\ requests[i].pc = "awaitSafeBrowsing"
    /\ requests[i].lookup \in {"noKey", "inFlight"}
    /\ requests[i].lookup = "noKey" => sb.safe
    /\ requests' = [requests EXCEPT ![i] = Resume(@, sb, analyzerFault)]
    /\ UNCHANGED <<trainedModel, apiKey, features, analysis, app>>

\* axios.post fails and SafeBrowsingService.checkURL rethrows
SafeBrowsingRejects(i, analyzerFault) ==
    /\ requests[i].pc = "awaitSafeBrowsing"
    /\ requests[i].lookup = "inFlight"
    /\ requests' = [requests EXCEPT ![i] = Resume(@, SafeBrowsingThrew, analyzerFault)]
    /\ UNCHANGED <<trainedModel, apiKey, features, analysis, app>>

Next ==
    \/ \E body \in Bodies, answers \in BOOLEAN : Receive(body, answers)
    \/ \E i \in 1..Len(requests), sb \in SafeBrowsingResults, fault \in BOOLEAN :
           SafeBrowsingResolves(i, sb, fault)
    \/ \E i \in 1..Len(requests), fault \in BOOLEAN : SafeBrowsingRejects(i, fault)

Spec == Init /\ [][Next]_vars

\* the server runs every continuation whose promise has settled; whether the
\* external service answers at all is the environment's choice (`answers`)
FairSpec ==
    /\ Spec
    /\ \A i \in 1..MaxRequests :
           /\ WF_vars(\E sb \in SafeBrowsingResults, fault \in BOOLEAN :
                          i <= Len(requests) /\ SafeBrowsingResolves(i, sb, fault))
           /\ WF_vars(\E fault \in BOOLEAN : i <= Len(requests) /\ SafeBrowsingRejects(i, fault))

(***************************************************************************)
(* Scorer harness: analyzeURL applied to feature vectors.  The explored    *)
(* vectors differ from the features of one of two https URLs in at most    *)
(* MaxChanged fields; every value set straddles the thresholds of          *)
(* calculateRiskScore and of isHighRiskFeature.                            *)
(***************************************************************************)
ScoredFields == {"isHTTPS", "urlLength", "hasIP", "isShortener", "suspiciousKeywordCount",
                 "hasBrandName", "hasTyposquatting", "specialCharRatio", "subdomainCount",
                 "hasPort", "hasSuspiciousTLD", "dotCount", "hyphenCount", "underscoreCount",
                 "charDiversity", "digitRatio", "queryLength", "domainLength", "pathLength"}

FieldValues(k) ==
    CASE k = "urlLength" -> {12, 100, 200}
      [] k = "suspiciousKeywordCount" -> {0, 1, 3}
      [] k = "specialCharRatio" -> {Pct(22), Pct(40)}
      [] k = "subdomainCount" -> {0, 2, 4}
      [] k = "dotCount" -> {1, 3, 6}
      [] k = "hyphenCount" -> {0, 5}
      [] k = "underscoreCount" -> {0, 3}
      [] k = "charDiversity" -> {Pct(20), Pct(50), Pct(80), Pct(90)}
      [] k = "digitRatio" -> {Pct(0), Pct(40)}
      [] k = "queryLength" -> {0, 60}
      [] k = "domainLength" -> {4, 40}
      [] k = "pathLength" -> {1, 60}
      [] OTHER -> BOOLEAN

\* what extractFeatures can return: the parts of the URL fit in it, an IPv4 host has
\* three dots, and the lower-cased text has at most 69 distinct printable characters
Consistent(f) ==
    /\ (IF f.isHTTPS THEN 8 ELSE 0) + f.domainLength + (f.pathLength - 1) + f.queryLength
           <= f.urlLength
    /\ f.hasIP => f.dotCount >= 3
    /\ f.charDiversity.n * f.urlLength <= 69 * f.charDiversity.d

\* the vectors the harness starts from: the plain URL, and an https URL on which only
\* blocks of calculateRiskScore that record no reason are triggered
Baselines == {BaselineFeatures, extractFeatures("https://a.b.c.io/blog_draft_new_post")}

ChangedFields(f, b) == {k \in ScoredFields : f[k] # b[k]}

ScorerInit ==
    /\ trainedModel \in Tables
    /\ apiKey = FALSE
    /\ requests = <<>>
    /\ features \in Baselines
    /\ analysis = analyzeFeatures(trainedModel, features)
    /\ app = InitialApp

\* analyzeURL is applied to a vector that differs from the current one in one field
SetFeature(k, v) ==
    /\ v # features[k]
    /\ Consistent([features EXCEPT ![k] = v])
    /\ \E b \in Baselines :
           Cardinality(ChangedFields([features EXCEPT ![k] = v], b)) <= MaxChanged
    /\ features' = [features EXCEPT ![k] = v]
    /\ analysis' = analyzeFeatures(trainedModel, features')
    /\ UNCHANGED <<trainedModel, apiKey, requests, app>>

ScorerSpec ==
    ScorerInit /\ [][\E k \in ScoredFields : \E v \in FieldValues(k) : SetFeature(k, v)]_vars

(***************************************************************************)
(* Validator harness: validateUPI applied to payment URIs built from a pa  *)
(* and a pn parameter, each absent, empty, well-formed or ill-formed.      *)
(***************************************************************************)
Absent == "<absent>"

\* pa and pn as sent; `name` is pn after form decoding ('+' is a space)
UpiInputs ==
    {[pa |-> pa, pn |-> pn.sent, name |-> pn.name] :
        pa \in {Absent, "", "shop@bank", "shopbank", "a@b@c", "sh!op@bank"},
        pn \in {[sent |-> Absent, name |-> Absent], [sent |-> "", name |-> ""],
                [sent |-> "Store", name |-> "Store"],
                [sent |-> "Fake+Store", name |-> "Fake Store"],
                [sent |-> "verify+your+account", name |-> "verify your account"]}}

UpiText(in) ==
    "upi://pay?am=10"
    \o (IF in.pa = Absent THEN "" ELSE "&pa=" \o in.pa)
    \o (IF in.pn = Absent THEN "" ELSE "&pn=" \o in.pn)

\* validateUPI of each input, tabulated once
ValidationOf == [in \in UpiInputs |-> validateUPI(UpiText(in))]

UpiInit ==
    /\ trainedModel = NoModel
    /\ apiKey = FALSE
    /\ requests = <<>>
    /\ features = BaselineFeatures
    /\ analysis = analyzeFeatures(trainedModel, features)
    /\ app = InitialApp

\* validateUPI is called on one more payment URI
Validate(in) ==
    /\ Len(requests) < MaxRequests
    /\ requests' = Append(requests, [input |-> in, upiString |-> UpiText(in),
                                    validation |-> ValidationOf[in]])
    /\ UNCHANGED <<trainedModel, apiKey, features, analysis, app>>

UpiSpec == UpiInit /\ [][\E in \in UpiInputs : Validate(in)]_vars

(***************************************************************************)
(* Frontend: the App component.  handleScanSuccess runs synchronously up   *)
(* to `await checkURL(text)` and, once that call settles, from there to    *)
(* the end of its finally block.  `requests` holds one record per call of  *)
(* api.checkURL, in the order the calls were made.  The scanner and the    *)
(* upload tab can deliver a text, and the reset button is shown, while a   *)
(* call is in flight.                                                      *)
(***************************************************************************)
AppInit ==
    /\ trainedModel = NoModel
    /\ apiKey = FALSE
    /\ requests = <<>>
    /\ features = BaselineFeatures
    /\ analysis = analyzeFeatures(trainedModel, features)
    /\ app = InitialApp

\* setDecodedText(text); setLoading(true); setResult(null); checkURL(text) is called
handleScanSuccess(text) ==
    /\ Len(requests) < MaxRequests
    /\ requests' = Append(requests, [text |-> text, pc |-> "awaitCheckURL"])
    /\ app' = [InitialApp EXCEPT !.decodedText = text, !.loading = TRUE]
    /\ UNCHANGED <<trainedModel, apiKey, features, analysis>>

\* call i settles: setResult(response) or, when it rejected, setResult({status: 'error'}),
\* then setLoading(false); `of` is the call the displayed object came from
checkURLSettles(i, fulfilled) ==
    /\ requests[i].pc = "awaitCheckURL"
    /\ requests' = [requests EXCEPT ![i].pc = "done"]
    /\ app' = [app EXCEPT !.result = [of |-> i,
                                      status |-> IF fulfilled THEN "checked" ELSE "error"],
                          !.loading = FALSE]
    /\ UNCHANGED <<trainedModel, apiKey, features, analysis>>

resetScan ==
    /\ app' = InitialApp
    /\ UNCHANGED <<trainedModel, apiKey, requests, features, analysis>>

AppSpec ==
    AppInit /\ [][\/ \E text \in {"https://google.com", "upi://pay?pn=Store",
                                   "just some plain text"} : handleScanSuccess(text)
                  \/ \E i \in 1..Len(requests), fulfilled \in BOOLEAN :
                         checkURLSettles(i, fulfilled)
                  \/ resetScan]_vars

(***************************************************************************)
(* Properties                                                              *)
(***************************************************************************)
Done(i) == requests[i].pc = "done"

\* the request went through the url branch: lookup awaited, scorer step run
UrlDone(i) == Done(i) /\ requests[i].lookupCalls = 1

Reported(i) == requests[i].response.body

InUnit(q) == QLeq(Q(0, 1), q) /\ QLeq(q, Q(1, 1))

\* what the scorer step of request i received
ScorerOutcome(i) ==
    scorerStep(trainedModel, requests[i].analyzingURL, requests[i].analyzerThrew)

\* C1: a url request whose lookup reported unsafe is answered 'malicious', whatever the
\* scorer returned and also when it threw: the status the lookup step set is not changed
C1_UnsafeLookupIsMalicious ==
    \A i \in 1..Len(requests) :
        (UrlDone(i) /\ ~requests[i].sb.threw /\ ~requests[i].sb.safe) =>
            /\ requests[i].afterLookup.status = "malicious"
            /\ requests[i].response.http = 200
            /\ Reported(i).status = "malicious"

\* an unsafe verdict met a scorer result that is suspicious but not of high severity
C1_Witness ==
    \E i \in 1..Len(requests) :
        /\ UrlDone(i) /\ ~requests[i].sb.threw /\ ~requests[i].sb.safe
        /\ Reported(i).analysis.present
        /\ Reported(i).checks.smartAnalyzer = "false"
        /\ Reported(i).analysis.severity = "medium"

\* C2: riskScore and confidence of analyzeURL are in [0,1] for every feature vector and
\* every weights table, and so is the confidence of every response of checkURL
C2_ScoresInUnitRange ==
    /\ InUnit(analysis.riskScore)
    /\ InUnit(analysis.confidence)
    /\ \A i \in 1..Len(requests) :
           (Done(i) /\ requests[i].response.http = 200) => InUnit(Reported(i).confidence)

\* C3: when the lookup throws, checks.safeBrowsing is null, the scorer still runs, and
\* the answer is a normal response whose status is the one the protocol check and the
\* scorer give without any lookup result
C3_LookupFailureIsUnavailable ==
    \A i \in 1..Len(requests) :
        (UrlDone(i) /\ requests[i].sb.threw) =>
            /\ Reported(i).checks.safeBrowsing = Null
            /\ requests[i].analyzerCalls = 1
            /\ requests[i].response.http = 200
            /\ requests[i].responses = 1
            /\ Reported(i).status
                   = applySmartAnalyzer(requests[i].afterProtocol, ScorerOutcome(i)).status

\* the lookup threw and the scorer alone made the request suspicious
C3_Witness ==
    \E i \in 1..Len(requests) :
        /\ UrlDone(i) /\ requests[i].sb.threw
        /\ requests[i].afterProtocol.status = "safe"
        /\ Reported(i).source = "smart_analyzer"
        /\ Reported(i).status = "suspicious"

NonEmptyPayload(i) ==
    i <= Len(requests) /\ requests[i].body.kind # "absent" /\ requests[i].body.text # ""

\* C4: every request with a non-empty payload eventually has exactly one response, also
\* when the external lookup never answers
C4_EveryRequestAnswered ==
    \A i \in 1..MaxRequests :
        NonEmptyPayload(i) ~> (i <= Len(requests) /\ requests[i].responses = 1)

Triggered(f) == {k \in 1..Len(ruleRows) : ruleContribution(ruleRows[k], f) > 0}

OneMoreTriggered(f, g) ==
    /\ Triggered(f) \subseteq Triggered(g)
    /\ Cardinality(Triggered(g) \ Triggered(f)) = 1

\* C6: when a vector differs from another only in that one more scoring condition is
\* triggered, analyzeURL's riskScore for it is not smaller, with or without a table
C6_Monotone ==
    [][OneMoreTriggered(features, features')
           => QLeq(analysis.riskScore, analysis'.riskScore)]_vars

\* the response request r gets when it is the only request, with the same answers
SoloResponse(b, r) ==
    IF b.pc = "done" THEN b.response ELSE Resume(b, r.sb, r.analyzerThrew).response

Alone(r) == SoloResponse(BeginOf[r.body, apiKey, r.lookup # "silent"], r)

UpiAnswer(r, v) ==
    /\ r.checks.upiFormat = JsBool(v.valid)
    /\ v.valid => /\ r.status = "safe"
                  /\ r.confidence = Pct(90)
    /\ ~v.valid => /\ r.status = "suspicious"
                   /\ r.confidence = Pct(70)
                   /\ Includes(r.threatType, v.errors[1])

\* C8: a upi response is 'suspicious' with confidence 0.7 and a reason that carries the
\* validator's first error when validation fails, 'safe' with confidence 0.9 when it
\* succeeds, and checks.upiFormat is the validator's valid flag
C8_UpiVerdict ==
    \A i \in 1..Len(requests) :
        (Done(i) /\ requests[i].upiCalls = 1) =>
            UpiAnswer(Reported(i), validateUPI(requests[i].analyzingURL))

\* the text is neither a payment URI nor a direct or embedded URL
PlainText(t) == ~isUPI(t) /\ ~ParseURL(t).ok /\ extractURLFromText(t) = Null

PlainTexts == {t \in Texts : PlainText(t)}

\* C9: a non-empty text that is neither a payment URI nor a URL is answered as 'text',
\* 'safe', with the fixed reason and confidence 0.5, without lookup or scorer
C9_PlainTextVerdict ==
    \A i \in 1..Len(requests) :
        (Done(i) /\ requests[i].body.kind = "string" /\ requests[i].body.text \in PlainTexts) =>
            /\ requests[i].response.http = 200
            /\ Reported(i).contentType = "text"
            /\ Reported(i).status = "safe"
            /\ Reported(i).threatType = "Plain text content - no URL detected"
            /\ Reported(i).confidence = Pct(50)
            /\ requests[i].lookupCalls = 0
            /\ requests[i].analyzerCalls = 0
            /\ \A c \in DOMAIN Reported(i).checks : Reported(i).checks[c] = Undefined

C9_Witness ==
    \E i \in 1..Len(requests) :
        /\ Done(i)
        /\ requests[i].body = [kind |-> "string", text |-> "just some plain text"]
        /\ Reported(i).contentType = "text"

\* C10: "https://google.com" with a safe lookup and no weights table is answered 'safe'
\* with checks.httpsProtocol = true, and the scorer does not flag it
C10_GoogleIsSafe ==
    \A i \in 1..Len(requests) :
        (/\ UrlDone(i)
         /\ requests[i].body.text = "https://google.com"
         /\ trainedModel = NoModel
         /\ ~requests[i].sb.threw /\ requests[i].sb.safe
         /\ ~requests[i].analyzerThrew) =>
            /\ Reported(i).status = "safe"
            /\ Reported(i).checks.httpsProtocol = "true"
            /\ Reported(i).checks.smartAnalyzer = "true"

\* C11: a request whose url field is absent or empty is answered 400 with status 'error'
\* and nothing else: no content-type detection, validation, lookup or scoring took place
C11_EmptyIsRejected ==
    \A i \in 1..Len(requests) :
        (requests[i].body.kind = "absent" \/ requests[i].body.text = "") =>
            /\ Done(i)
            /\ requests[i].responses = 1
            /\ requests[i].response.http = 400
            /\ DOMAIN Reported(i) = {"status", "message"}
            /\ Reported(i).status = "error"
            /\ ~requests[i].classified
            /\ requests[i].upiCalls = 0
            /\ requests[i].lookupCalls = 0
            /\ requests[i].analyzerCalls = 0

\* both an absent field and an empty string were received
C11_Witness ==
    \E i, j \in 1..Len(requests) :
        /\ requests[i].body.kind = "absent"
        /\ requests[j].body = [kind |-> "string", text |-> ""]
        /\ requests[i].response.http = 400
        /\ requests[j].response.http = 400

TriState == {"true", "false", Null}

\* C12: every url response has a true/false/null entry for httpsProtocol, safeBrowsing
\* and smartAnalyzer in its checks map, whatever the scheme of the URL, and every upi
\* response has one for upiFormat
C12_ChecksComplete ==
    \A i \in 1..Len(requests) :
        (Done(i) /\ requests[i].response.http = 200) =>
            /\ Reported(i).contentType = "url" =>
                   /\ Reported(i).checks.httpsProtocol \in TriState
                   /\ Reported(i).checks.safeBrowsing \in TriState
                   /\ Reported(i).checks.smartAnalyzer \in TriState
            /\ Reported(i).contentType = "upi" => Reported(i).checks.upiFormat \in TriState

PlainHttp(i) == UrlDone(i) /\ StartsWith(requests[i].analyzingURL, "http://")

NotFlagged(i) == requests[i].analyzerThrew \/ ~ScorerOutcome(i).value.isSuspicious

\* C13: a url request on a plain http:// URL is 'suspicious' after the protocol check and
\* 'suspicious' or 'malicious' after each later step, never 'safe'; when the lookup does
\* not report unsafe and the scorer does not flag the URL, the response is 'suspicious',
\* 'Insecure HTTP protocol', confidence 0.45, checks.httpsProtocol = false
C13_InsecureHttpIsSuspicious ==
    \A i \in 1..Len(requests) :
        PlainHttp(i) =>
            /\ requests[i].afterProtocol.status = "suspicious"
            /\ requests[i].afterLookup.status \in {"suspicious", "malicious"}
            /\ Reported(i).status \in {"suspicious", "malicious"}
            /\ Reported(i).checks.httpsProtocol = "false"
            /\ ((requests[i].sb.threw \/ requests[i].sb.safe) /\ NotFlagged(i)) =>
                   /\ Reported(i).status = "suspicious"
                   /\ Reported(i).threatType = "Insecure HTTP protocol"
                   /\ Reported(i).confidence = Pct(45)

\* an http:// URL passed a clean lookup and a scorer that ran and did not flag it
C13_Witness ==
    \E i \in 1..Len(requests) :
        /\ PlainHttp(i)
        /\ ~requests[i].sb.threw /\ requests[i].sb.safe
        /\ ~requests[i].analyzerThrew
        /\ Reported(i).checks.smartAnalyzer = "true"
        /\ Reported(i).status = "suspicious"

\* the scorer step of url request i ran and returned ar, which flags the URL, after a
\* lookup that did not report unsafe
FlaggedAfterCleanLookup(i, ar) ==
    /\ UrlDone(i)
    /\ requests[i].sb.threw \/ requests[i].sb.safe
    /\ ~requests[i].analyzerThrew
    /\ ar.isSuspicious

\* response r carries the scorer's reason, confidence and source tag
AdoptsScorer(r, ar) ==
    /\ r.threatType = ar.reason
    /\ r.confidence = ar.confidence
    /\ r.source = "smart_analyzer"

\* what C14 asks of request i when the scorer returned ar
Overridden(i, ar) ==
    /\ requests[i].afterLookup.status = "safe" =>
           /\ Reported(i).status = IF ar.severity = "high" THEN "malicious" ELSE "suspicious"
           /\ AdoptsScorer(Reported(i), ar)
    /\ (requests[i].afterLookup.status = "suspicious" /\ ar.severity = "high") =>
           /\ Reported(i).status = "malicious"
           /\ AdoptsScorer(Reported(i), ar)

\* C14: when the scorer flags a URL whose status before the scorer step is 'safe', the
\* response is 'malicious' for severity 'high' and 'suspicious' otherwise; when that status
\* is 'suspicious' and the severity 'high', the response is 'malicious'; in both cases
\* threatType, confidence and source are the scorer's
C14_ScorerOverrides ==
    \A i \in 1..Len(requests) :
        FlaggedAfterCleanLookup(i, ScorerOutcome(i).value) =>
            Overridden(i, ScorerOutcome(i).value)

\* two requests flagged with high severity: one started from 'safe', the other from
\* 'suspicious'
C14_Witness ==
    \E i, j \in 1..Len(requests) :
        /\ FlaggedAfterCleanLookup(i, ScorerOutcome(i).value)
        /\ FlaggedAfterCleanLookup(j, ScorerOutcome(j).value)
        /\ requests[i].afterLookup.status = "safe"
        /\ Reported(i).analysis.severity = "high"
        /\ Reported(i).status = "malicious"
        /\ requests[j].afterLookup.status = "suspicious"
        /\ Reported(j).analysis.severity = "high"
        /\ Reported(j).status = "malicious"

Occurrences(s, p) == Cardinality({k \in 1..Len(s) : MatchAt(s, p, k)})

\* the scorer returned ar, which flags the URL of request i, while the status was
\* 'malicious', or 'suspicious' with a severity that is not 'high'
CombineCase(i, ar) ==
    /\ UrlDone(i)
    /\ ~requests[i].analyzerThrew
    /\ ar.isSuspicious
    /\ \/ requests[i].afterLookup.status = "malicious"
       \/ /\ requests[i].afterLookup.status = "suspicious"
          /\ ar.severity # "high"

\* response r keeps status and source of `before`, names both reasons, the scorer's once,
\* and has the larger confidence
Combined(r, before, ar) ==
    /\ r.status = before.status
    /\ r.source = before.source
    /\ Includes(r.threatType, before.threatType)
    /\ Occurrences(r.threatType, ar.reason) = 1
    /\ r.confidence = QMax(before.confidence, ar.confidence)
    /\ before.status = "malicious" => QLeq(Pct(95), r.confidence)

\* C15: when the scorer flags a URL whose status is already 'malicious', or 'suspicious'
\* with non-high severity, status and source stay, threatType contains the earlier reason
\* and the scorer's reason exactly once, and confidence is the larger of the two
C15_ScorerCombines ==
    \A i \in 1..Len(requests) :
        CombineCase(i, ScorerOutcome(i).value) =>
            Combined(Reported(i), requests[i].afterLookup, ScorerOutcome(i).value)

\* a lookup hit with a named threat type met a scorer that flagged the URL
C15_Witness ==
    \E i \in 1..Len(requests) :
        /\ CombineCase(i, ScorerOutcome(i).value)
        /\ requests[i].afterLookup.status = "malicious"
        /\ requests[i].afterLookup.threatType = "MALWARE"
        /\ QLess(Reported(i).analysis.riskScore, Pct(80))
        /\ Reported(i).confidence = Pct(95)

\* analyzeURL's try block ran to its end, so the model score entered riskScore
Blended(tm) == Loaded(tm) /\ ~predictThrows(tm)

BlendOf(ruleScore, mlScore) ==
    QNorm(QAdd(QMul(ruleScore, Q(3, 10)), QMul(mlScore, Q(7, 10))))

\* C16: riskScore is 0.3*ruleScore + 0.7*modelScore when the model score was computed and
\* the rule score otherwise, and mlModelUsed is true exactly when the blend took place:
\* it is false when predictWithTrainedModel throws
C16_MlFlagTellsBlending ==
    /\ analysis.riskScore
           = IF Blended(trainedModel)
             THEN BlendOf(calculateRiskScore(features),
                          predictWithTrainedModel(trainedModel, features))
             ELSE QNorm(calculateRiskScore(features))
    /\ analysis.mlModelUsed <=> Blended(trainedModel)

\* the rule table of the specification, in hundredths
TableSum(f) ==
      (IF ~f.isHTTPS THEN 40 ELSE 0)
    + (IF f.urlLength > 150 THEN 30 ELSE IF f.urlLength > 80 THEN 20
       ELSE IF f.urlLength < 15 THEN 15 ELSE 0)
    + (IF f.hasIP THEN 60 ELSE 0)
    + (IF f.isShortener THEN 50 ELSE 0)
    + (IF f.suspiciousKeywordCount > 2 THEN 50
       ELSE IF f.suspiciousKeywordCount > 0 THEN 30 ELSE 0)
    + (IF f.hasBrandName THEN 50 ELSE 0)
    + (IF f.hasTyposquatting THEN 40 ELSE 0)
    + (IF QLess(Pct(35), f.specialCharRatio) THEN 30
       ELSE IF QLess(Pct(20), f.specialCharRatio) THEN 15 ELSE 0)
    + (IF f.subdomainCount > 3 THEN 30 ELSE IF f.subdomainCount > 1 THEN 15 ELSE 0)
    + (IF f.hasPort THEN 25 ELSE 0)
    + (IF f.hasSuspiciousTLD THEN 50 ELSE 0)
    + (IF f.dotCount > 5 THEN 20 ELSE 0)
    + (IF f.hyphenCount > 4 THEN 20 ELSE 0)
    + (IF QLess(Pct(85), f.charDiversity) \/ QLess(f.charDiversity, Pct(30)) THEN 15 ELSE 0)
    + (IF QLess(Pct(35), f.digitRatio) THEN 15 ELSE 0)
    + (IF f.queryLength > 50 THEN 20 ELSE 0)

\* C17: calculateRiskScore is min(1, sum of the triggered rows of the rule table) for every
\* feature vector; no feature outside the table changes the score
C17_RuleTableIsTheScore ==
    QNorm(calculateRiskScore(features)) = QNorm(Pct(Min2(100, TableSum(features))))

NoPatterns == "No suspicious patterns detected"

\* the number of fragments of a reason joined with "; "
FragmentCount(reason) == IF reason = NoPatterns THEN 0 ELSE Occurrences(reason, "; ") + 1

\* C18: analyzeURL's reason has one fragment for each triggered scoring condition, joined
\* with "; ", and is 'No suspicious patterns detected' exactly when none is triggered,
\* that is exactly when the rule score is 0
C18_ReasonNamesEveryTrigger ==
    /\ (analysis.reason = NoPatterns) <=> (calculateRiskScore(features) = Q(0, 1))
    /\ FragmentCount(analysis.reason) = Cardinality(Triggered(features))

Given(p) == p # Absent /\ p # ""

\* the errors the four checks call for, in the order validateUPI makes them
ExpectedErrors(in) ==
       Frag(~Given(in.pa), "Missing required parameter: pa")
    \o Frag(~Given(in.pn), "Missing required parameter: pn")
    \o Frag(Given(in.pa) /\ ~isValidVPA(in.pa), "Invalid VPA format")
    \o Frag(Given(in.pn) /\ hasSuspiciousPatterns(in.name), "Suspicious payee name detected")

\* C19: validateUPI of a parseable payment URI is valid exactly when pa and pn are present
\* and non-empty, pa has the form local-part@handle and pn matches no suspicious pattern;
\* every violated check adds its own error, so valid is false exactly when errors is
\* not empty
C19_ValidIffAllChecksPass ==
    \A k \in 1..Len(requests) :
        /\ requests[k].validation.valid
               <=> /\ Given(requests[k].input.pa) /\ Given(requests[k].input.pn)
                   /\ isValidVPA(requests[k].input.pa)
                   /\ ~hasSuspiciousPatterns(requests[k].input.name)
        /\ requests[k].validation.errors = ExpectedErrors(requests[k].input)
        /\ ~requests[k].validation.valid <=> requests[k].validation.errors # <<>>

\* a URI without pn whose pa is not a VPA, and a well-formed one
C19_Witness ==
    \E j, k \in 1..Len(requests) :
        /\ requests[j].upiString = "upi://pay?am=10&pa=a@b@c"
        /\ Len(requests[j].validation.errors) = 2
        /\ requests[k].upiString = "upi://pay?am=10&pa=shop@bank&pn=Store"
        /\ requests[k].validation.valid

\* C20: a text that contains a payment scheme prefix anywhere is answered as 'upi', also
\* when it contains an http(s)://, ftp:// or www. URL as well: the payment test is made on
\* the raw input
C20_PaymentPrefixWins ==
    \A i \in 1..Len(requests) :
        (/\ Done(i)
         /\ requests[i].body.kind = "string"
         /\ isUPI(requests[i].body.text)) =>
            /\ requests[i].response.http = 200
            /\ Reported(i).contentType = "upi"

\* the texts `new URL` accepts as a whole
Parseable == {t \in Texts : ParseURL(t).ok}

\* C21: when the raw input as a whole parses as a URL, the text that is analysed (looked
\* up and scored) is the raw input itself; an embedded URL is searched for only when
\* direct parsing fails
C21_DirectParseFirst ==
    \A i \in 1..Len(requests) :
        (/\ requests[i].classified
         /\ requests[i].body.kind = "string"
         /\ requests[i].body.text \in Parseable) =>
            requests[i].analyzingURL = requests[i].body.text

\* the table is a list whose importances are all positive
PositiveTable(tm) ==
    /\ tm.kind = "array"
    /\ tm.top_features # <<>>
    /\ \A i \in 1..Len(tm.top_features) : tm.top_features[i][2] > 0

\* a feature counts when its value is above its threshold; is_https counts when the URL
\* is not HTTPS
CountsAsRisk(name, f) ==
    IF name = "is_https" THEN ~f.isHTTPS
    ELSE QLess(riskThresholds(name), getFeatureValue(f, name))

\* the importances of the features that count, summed
CountedImportance(tm, f) ==
    SumSeq([i \in 1..Len(tm.top_features) |->
               IF CountsAsRisk(tm.top_features[i][1], f) THEN tm.top_features[i][2] ELSE 0])

\* C22: with a table of positive importances the model score is
\* min(1, sum of 0.25 * importance / maxImportance) over the features whose value is above
\* the threshold, is_https counting for a URL that is not HTTPS and not for an HTTPS one
C22_HttpsCountsWhenAbsent ==
    PositiveTable(trainedModel) =>
        predictWithTrainedModel(trainedModel, features)
            = QMin(Q(1, 1),
                   QDiv(25 * CountedImportance(trainedModel, features),
                        100 * MaxSeq([i \in 1..Len(trainedModel.top_features) |->
                                         trainedModel.top_features[i][2]])))

\* the entries of a checks map that are false
FailedChecks(checks) ==
    {k \in {"httpsProtocol", "safeBrowsing", "smartAnalyzer", "upiFormat"} : checks[k] = "false"}

\* C23: a response whose status is not 'error' has status 'safe' exactly when no entry of
\* its checks map is false; otherwise the status is 'suspicious' or 'malicious'
C23_SafeIffNoFailedCheck ==
    \A i \in 1..Len(requests) :
        (Done(i) /\ Reported(i).status # "error") =>
            /\ Reported(i).status \in {"safe", "suspicious", "malicious"}
            /\ Reported(i).status = "safe" <=> FailedChecks(Reported(i).checks) = {}

\* the scorer's flag is the only failed check of one response and the payment format the
\* only one of another
C23_Witness ==
    /\ \E i \in 1..Len(requests) :
           /\ UrlDone(i)
           /\ FailedChecks(Reported(i).checks) = {"smartAnalyzer"}
           /\ Reported(i).status # "safe"
    /\ \E i \in 1..Len(requests) :
           /\ Done(i) /\ requests[i].upiCalls = 1
           /\ FailedChecks(Reported(i).checks) = {"upiFormat"}

\* the order safe < suspicious < malicious
Rank(status) == CASE status = "safe" -> 0 [] status = "suspicious" -> 1 [] status = "malicious" -> 2

\* result b is not below result a in status or in confidence
NotLowered(a, b) == Rank(a.status) <= Rank(b.status) /\ QLeq(a.confidence, b.confidence)

ThrewAndClean(i, j) ==
    /\ UrlDone(i) /\ UrlDone(j)
    /\ requests[i].body = requests[j].body
    /\ requests[i].analyzerThrew = requests[j].analyzerThrew
    /\ requests[i].sb.threw
    /\ ~requests[j].sb.threw /\ requests[j].sb.safe

\* C25: on the same url text and with the same scorer outcome, the response after a lookup
\* that threw equals the response after a clean verdict except that checks.safeBrowsing is
\* null instead of true; a lookup that threw never sets checks.safeBrowsing = false and
\* the status is 'malicious' only when the scorer made it so
C25_FailureEqualsCleanButForCheck ==
    /\ \A i, j \in 1..Len(requests) :
           ThrewAndClean(i, j) =>
               /\ Reported(j).checks.safeBrowsing = "true"
               /\ requests[i].response.http = requests[j].response.http
               /\ Reported(i) = [Reported(j) EXCEPT !.checks.safeBrowsing = Null]
    /\ \A i \in 1..Len(requests) :
           (UrlDone(i) /\ requests[i].sb.threw) =>
               /\ Reported(i).checks.safeBrowsing = Null
               /\ Reported(i).status = "malicious" => Reported(i).source = "smart_analyzer"

\* the pair exists for a URL the protocol check flagged and the scorer analysed
C25_Witness ==
    \E i, j \in 1..Len(requests) :
        /\ ThrewAndClean(i, j)
        /\ Reported(i).status = "suspicious"
        /\ Reported(i).threatType = "Insecure HTTP protocol"
        /\ Reported(i).analysis.present

\* C26: checks.safeBrowsing is true only when the external service was queried for the
\* URL and reported no match; without an API key, or when the call fails, it is null
C26_CleanOnlyWhenQueried ==
    \A i \in 1..Len(requests) :
        UrlDone(i) =>
            /\ Reported(i).checks.safeBrowsing = "true" =>
                   /\ requests[i].lookup = "inFlight"
                   /\ ~requests[i].sb.threw /\ requests[i].sb.safe
            /\ (requests[i].lookup = "noKey" \/ requests[i].sb.threw) =>
                   Reported(i).checks.safeBrowsing = Null

\* C27: a suspicious result of analyzeURL, whose reason becomes the threatType of a
\* response with source smart_analyzer, names a risk factor: its reason is never
\* 'No suspicious patterns detected'
C27_SuspicionIsExplained ==
    analysis.isSuspicious => analysis.reason # NoPatterns

\* the text request i analyses is an http:// or https:// URL
AnalysesWebURL(i) ==
    /\ requests[i].classified
    /\ \/ StartsWith(requests[i].analyzingURL, "http://")
       \/ StartsWith(requests[i].analyzingURL, "https://")

\* C28: a request whose analysed text is an http:// or https:// URL is classified 'url'
\* and is answered only after both the lookup and the scorer were called on it; none is
\* answered 'safe' without a lookup
C28_WebURLsAreLookedUp ==
    \A i \in 1..Len(requests) :
        (AnalysesWebURL(i) /\ Done(i)) =>
            /\ Reported(i).contentType = "url"
            /\ requests[i].lookupCalls = 1
            /\ requests[i].analyzerCalls = 1

\* C29: when analyzeURL throws in a url request, the response is a normal one with
\* checks.smartAnalyzer = null and no analysis block, and its status, threatType,
\* confidence and source, like every other field, are those the protocol check and the
\* lookup step left
C29_ScorerFailureKeepsVerdict ==
    \A i \in 1..Len(requests) :
        (UrlDone(i) /\ requests[i].analyzerThrew) =>
            /\ requests[i].response.http = 200
            /\ requests[i].responses = 1
            /\ Reported(i).checks.smartAnalyzer = Null
            /\ ~Reported(i).analysis.present
            /\ Reported(i) = [requests[i].afterLookup EXCEPT !.checks.smartAnalyzer = Null]

\* the scorer threw on a URL the lookup had reported, and on one the protocol check had
\* flagged while the lookup was unavailable
C29_Witness ==
    /\ \E i \in 1..Len(requests) :
           /\ UrlDone(i) /\ requests[i].analyzerThrew
           /\ Reported(i).status = "malicious"
           /\ Reported(i).source = "google_safe_browsing"
    /\ \E i \in 1..Len(requests) :
           /\ UrlDone(i) /\ requests[i].analyzerThrew
           /\ requests[i].sb.threw
           /\ Reported(i).status = "suspicious"
           /\ Reported(i).threatType = "Insecure HTTP protocol"

\* C30: a displayed result is the outcome of a check of the displayed decodedText: the
\* call of checkURL it comes from was made with that text, and after resetScan
\* (decodedText = '') no result is displayed
C30_ResultBelongsToDecodedText ==
    app.result.status # Null =>
        /\ app.decodedText # ""
        /\ requests[app.result.of].text = app.decodedText

====
